---- MODULE Spec2Model ----
(***************************************************************************)
(* Verification model of the Vinted AutoLister front end:                  *)
(*   - aiGenerator.js    generateAIPrice (the price recommendation)        *)
(*   - formValidator.js  validateField, validateForm                       *)
(*   - uiHelpers.js      showToast                                         *)
(* and of the Comparable Normalizer the design document describes.         *)
(*                                                                         *)
(* JavaScript strings are modelled as tuples of one-character strings, so  *)
(* that trim(), length and parseFloat are computed character by character. *)
(***************************************************************************)
EXTENDS Integers, Sequences, FiniteSets, TLC

VARIABLES
    priceCalls,     \* aiGenerator.js: the calls of generateAIPrice made so far, each with its arguments and its return value
    toastHidden,    \* uiHelpers.js: the toast element carries the class 'translate-x-full'
    toastText,      \* uiHelpers.js: textContent of the toast's <span>
    toastTimers,    \* uiHelpers.js: expiry times (ms) of the pending setTimeout callbacks, in scheduling order
    lastShown,      \* time (ms) of the most recent showToast call on the existing toast, -1 before the first
    now,            \* the clock (ms)
    dom,            \* formValidator.js: the value of each form field of the document, by element id
    uploadedImages, \* formValidator.js: the number of images in the uploadedImages array
    lastCall,       \* formValidator.js: the most recent validateField / validateForm call on the current form state: its arguments, result and onError calls
    rawListings,    \* Comparable Normalizer: the raw listing records the scraper returned for the request
    normResult      \* Comparable Normalizer: the outcome of normalize on rawListings (none before the call)

priceVars == <<priceCalls>>
toastVars == <<toastHidden, toastText, toastTimers, lastShown, now>>
formVars == <<dom, uploadedImages, lastCall>>
normVars == <<rawListings, normResult>>
vars == <<priceCalls, toastHidden, toastText, toastTimers, lastShown, now,
          dom, uploadedImages, lastCall, rawListings, normResult>>

----------------------------------------------------------------------------
(* Bounds of the model *)

\* Math.random() is drawn from the grid {0, 1/g, ..., (g-1)/g}
RandomGrain == 6
\* number of generateAIPrice calls observed in one run
MaxPriceCalls == 2
\* the clock advances in steps of TickMs up to MaxTimeMs
TickMs == 1000
MaxTimeMs == 9000
\* setTimeout callbacks pending at one time
MaxToastTimers == 3
\* length of the uploadedImages array
MaxImages == 1
\* length of the requiredFieldIds array
MaxRequired == 2
\* number of raw listings of one request
MaxListings == 3
\* number of raw listings of one larger request
MaxComparables == 6

----------------------------------------------------------------------------
(* aiGenerator.js *)

Conditions == {"new", "like-new", "good", "fair", "poor"}
Categories == {"tops", "shoes"}
\* what a caller may put beside category and condition; generateAIPrice
\* destructures { category, condition } only and reads nothing else
Samples == {<< >>, <<13, 14, 15, 16>>}
DefaultPrices == {10, 30}

PriceArgs ==
    [category : Categories, condition : Conditions,
     sample : Samples, defaultPrice : DefaultPrices]

\* Math.random(): a number in [0, 1), here k / RandomGrain
MathRandom == 0 .. (RandomGrain - 1)

\* Math.round(20 + Math.random() * 30) with Math.random() = k / RandomGrain:
\* Math.round(x) = floor(x + 1/2)
generateAIPrice(args, k) ==
    (40 * RandomGrain + 60 * k + RandomGrain) \div (2 * RandomGrain)

\* The value generateAIPrice returns is a Number primitive. Read as a price
\* estimate, the number itself is the recommended price, and reading any
\* other property of it yields undefined.
Undefined == "undefined"
recommended_price(est) == est
price_range(est) == Undefined
confidence(est) == Undefined

CallGenerateAIPrice ==
    /\ Len(priceCalls) < MaxPriceCalls
    /\ \E args \in PriceArgs, k \in MathRandom :
          priceCalls' = Append(priceCalls,
                               [args |-> args, ret |-> generateAIPrice(args, k)])
    /\ UNCHANGED <<toastVars, formVars, normVars>>

PriceInit == priceCalls = << >>

----------------------------------------------------------------------------
(* uiHelpers.js *)

\* setTimeout(..., 4000)
ToastDelayMs == 4000

ToastIds == {"toast", "missing-toast"}
Messages == {"Saved", "Error"}

\* document.getElementById(toastId): only "toast" is in the document
ToastElementExists(toastId) == toastId = "toast"

\* showToast({ toastId, message }): returns early when the element is
\* missing; otherwise sets the text, shows the toast and schedules a hide
\* callback 4000 ms later. No earlier callback is cancelled.
showToast(toastId, message) ==
    IF ~ToastElementExists(toastId)
    THEN UNCHANGED toastVars
    ELSE /\ toastText' = message
         /\ toastHidden' = FALSE
         /\ toastTimers' = Append(toastTimers, now + ToastDelayMs)
         /\ lastShown' = now
         /\ UNCHANGED now

ShowToast ==
    /\ Len(toastTimers) < MaxToastTimers
    /\ \E toastId \in ToastIds, message \in Messages : showToast(toastId, message)
    /\ UNCHANGED <<priceVars, formVars, normVars>>

\* the callback of the oldest pending timer runs once its time has come:
\* toast.classList.add('translate-x-full')
FireTimer ==
    /\ toastTimers # << >>
    /\ Head(toastTimers) <= now
    /\ toastHidden' = TRUE
    /\ toastTimers' = Tail(toastTimers)
    /\ UNCHANGED <<toastText, lastShown, now>>
    /\ UNCHANGED <<priceVars, formVars, normVars>>

\* time passes; a due callback runs before the clock moves on
Tick ==
    /\ now + TickMs <= MaxTimeMs
    /\ \A i \in 1 .. Len(toastTimers) : toastTimers[i] > now
    /\ now' = now + TickMs
    /\ UNCHANGED <<toastHidden, toastText, toastTimers, lastShown>>
    /\ UNCHANGED <<priceVars, formVars, normVars>>

ToastInit ==
    /\ toastHidden = TRUE
    /\ toastText = ""
    /\ toastTimers = << >>
    /\ lastShown = -1
    /\ now = 0

----------------------------------------------------------------------------
(* JavaScript strings: tuples of one-character strings *)

WhiteSpace == {" "}
Digits == {"0", "1", "2", "3", "4", "5", "6", "7", "8", "9"}

DigitValue(c) ==
    CASE c = "0" -> 0 [] c = "1" -> 1 [] c = "2" -> 2 [] c = "3" -> 3
      [] c = "4" -> 4 [] c = "5" -> 5 [] c = "6" -> 6 [] c = "7" -> 7
      [] c = "8" -> 8 [] c = "9" -> 9

\* s without its first n characters
Drop(s, n) == SubSeq(s, n + 1, Len(s))

RECURSIVE TrimStart(_)
TrimStart(s) ==
    IF s # << >> /\ Head(s) \in WhiteSpace THEN TrimStart(Tail(s)) ELSE s

RECURSIVE TrimEnd(_)
TrimEnd(s) ==
    IF s # << >> /\ s[Len(s)] \in WhiteSpace
    THEN TrimEnd(SubSeq(s, 1, Len(s) - 1)) ELSE s

\* String.prototype.trim()
trim(s) == TrimEnd(TrimStart(s))

\* the length of the longest prefix of s made of digits
RECURSIVE DigitRun(_)
DigitRun(s) ==
    IF s # << >> /\ Head(s) \in Digits THEN 1 + DigitRun(Tail(s)) ELSE 0

\* the number a string of digits denotes (0 for the empty string)
RECURSIVE DigitsToNat(_)
DigitsToNat(s) ==
    IF s = << >> THEN 0
    ELSE 10 * DigitsToNat(SubSeq(s, 1, Len(s) - 1)) + DigitValue(s[Len(s)])

IsPrefix(p, s) == Len(p) <= Len(s) /\ SubSeq(s, 1, Len(p)) = p

NaN == [kind |-> "NaN"]
InfinityLiteral == <<"I", "n", "f", "i", "n", "i", "t", "y">>

\* parseFloat(string): skips leading white space, then reads the longest
\* prefix that is a decimal literal: an optional sign, then Infinity, or
\* digits with an optional fraction, or a fraction alone; NaN when there is
\* none. A number is kept exactly: (-1)^neg * mant / 10^scale. (No modelled
\* field value holds an exponent part.)
parseFloat(string) ==
    LET t == TrimStart(string)
        signed == t # << >> /\ Head(t) \in {"+", "-"}
        neg == t # << >> /\ Head(t) = "-"
        u == IF signed THEN Tail(t) ELSE t
        ni == DigitRun(u)
        afterInt == Drop(u, ni)
        hasDot == afterInt # << >> /\ Head(afterInt) = "."
        nf == IF hasDot THEN DigitRun(Tail(afterInt)) ELSE 0
        intPart == SubSeq(u, 1, ni)
        fracPart == IF hasDot THEN SubSeq(afterInt, 2, nf + 1) ELSE << >>
    IN  IF IsPrefix(InfinityLiteral, u) THEN [kind |-> "Infinity", neg |-> neg]
        ELSE IF ni = 0 /\ nf = 0 THEN NaN
        ELSE [kind |-> "number", neg |-> neg,
              mant |-> DigitsToNat(intPart \o fracPart), scale |-> nf]

\* x <= 0 for a parseFloat result: every comparison with NaN is false
LessOrEqualZero(x) ==
    CASE x.kind = "NaN" -> FALSE
      [] x.kind = "Infinity" -> x.neg
      [] x.kind = "number" -> x.neg \/ x.mant = 0

\* x > 0 for a parseFloat result
GreaterThanZero(x) ==
    CASE x.kind = "NaN" -> FALSE
      [] x.kind = "Infinity" -> ~x.neg
      [] x.kind = "number" -> ~x.neg /\ x.mant > 0

\* a string of n characters c
Repeat(c, n) == [i \in 1 .. n |-> c]

----------------------------------------------------------------------------
(* formValidator.js *)

\* the form fields of the document, with the type of each
FieldIds == {"title-input", "description-input", "price-input"}
FieldType(id) ==
    CASE id = "title-input" -> "text"
      [] id = "description-input" -> "textarea"
      [] id = "price-input" -> "number"

\* ids a caller may list as required; "missing-input" is not in the document
RequiredIds == FieldIds \cup {"missing-input"}

\* values a user may leave in each field
FieldValues(id) ==
    CASE id = "title-input" ->
            {<< >>, Repeat("t", 9), Repeat("t", 10)}
      [] id = "description-input" ->
            {<< >>, Repeat("d", 19), <<" ">> \o Repeat("d", 20)}
      [] id = "price-input" ->
            {<< >>, <<" ", " ">>, <<"a", "b", "c">>, <<"0">>, <<"-", "5">>,
             <<" ", "7", " ">>, <<"0", ".", "5">>, <<"1", "2", "a", "b", "c">>}

\* document.getElementById(id) of a form field: null when there is none
NoElement == [null |-> TRUE]
getElementById(id) ==
    IF id \in FieldIds
    THEN [id |-> id, type |-> FieldType(id), value |-> dom[id]]
    ELSE NoElement

\* validateField(field, onError): the result, and the onError calls made
validateField(field) ==
    LET value == trim(field.value)
        error ==
            IF value = << >> THEN "This field is required"
            ELSE IF field.type = "number" /\ LessOrEqualZero(parseFloat(value))
                 THEN "Please enter a valid number"
            ELSE IF field.id = "title-input" /\ Len(value) < 10
                 THEN "Title must be at least 10 characters"
            ELSE IF field.id = "description-input" /\ Len(value) < 20
                 THEN "Description must be at least 20 characters"
            ELSE ""
    IN  IF error # ""
        THEN [ret |-> FALSE, errors |-> <<[field |-> field.id, message |-> error]>>]
        ELSE [ret |-> TRUE, errors |-> << >>]

\* the requiredFieldIds.forEach loop of validateForm, from the state
\* acc = [ret |-> isValid, errors |-> onError calls so far]
RECURSIVE ForEachRequired(_, _)
ForEachRequired(ids, acc) ==
    IF ids = << >> THEN acc
    ELSE LET field == getElementById(Head(ids))
             r == IF field = NoElement THEN [ret |-> TRUE, errors |-> << >>]
                  ELSE validateField(field)
         IN  ForEachRequired(Tail(ids),
                 [ret |-> IF field # NoElement /\ ~r.ret THEN FALSE ELSE acc.ret,
                  errors |-> acc.errors \o r.errors])

\* the same loop leaving at the first field that fails
RECURSIVE ForEachRequiredUntilFailure(_, _)
ForEachRequiredUntilFailure(ids, acc) ==
    IF ids = << >> \/ ~acc.ret THEN acc
    ELSE LET field == getElementById(Head(ids))
             r == IF field = NoElement THEN [ret |-> TRUE, errors |-> << >>]
                  ELSE validateField(field)
         IN  ForEachRequiredUntilFailure(Tail(ids),
                 [ret |-> IF field # NoElement /\ ~r.ret THEN FALSE ELSE acc.ret,
                  errors |-> acc.errors \o r.errors])

\* validateForm({ requiredFieldIds, uploadedImages, onError })
validateFormUntilFailure(requiredFieldIds, nImages) ==
    ForEachRequiredUntilFailure(requiredFieldIds,
        IF nImages = 0
        THEN [ret |-> FALSE,
              errors |-> <<[field |-> "null",
                            message |-> "Please upload at least one image"]>>]
        ELSE [ret |-> TRUE, errors |-> << >>])

validateForm(requiredFieldIds, nImages) ==
    ForEachRequired(requiredFieldIds,
        IF nImages = 0
        THEN [ret |-> FALSE,
              errors |-> <<[field |-> "null",
                            message |-> "Please upload at least one image"]>>]
        ELSE [ret |-> TRUE, errors |-> << >>])

NoCall == [op |-> "none"]

\* the arrays of at most MaxRequired ids
RequiredIdLists == UNION {[1 .. n -> RequiredIds] : n \in 0 .. MaxRequired}

\* the user edits a field
SetFieldValue ==
    /\ \E id \in FieldIds :
       \E v \in FieldValues(id) :
          /\ dom[id] # v
          /\ dom' = [dom EXCEPT ![id] = v]
    /\ lastCall' = NoCall
    /\ UNCHANGED <<uploadedImages, priceVars, toastVars, normVars>>

\* upload.js: handleFiles hands the files to onFilesAdded, which keeps them
AddImage ==
    /\ uploadedImages < MaxImages
    /\ uploadedImages' = uploadedImages + 1
    /\ lastCall' = NoCall
    /\ UNCHANGED <<dom, priceVars, toastVars, normVars>>

\* setupFormValidation: the blur listener of a required field
BlurField ==
    /\ \E id \in FieldIds :
          LET r == validateField(getElementById(id)) IN
          lastCall' = [op |-> "validateField", id |-> id,
                       ret |-> r.ret, errors |-> r.errors]
    /\ UNCHANGED <<dom, uploadedImages, priceVars, toastVars, normVars>>

\* a caller validates the whole form
SubmitForm ==
    /\ \E ids \in RequiredIdLists :
          LET r == validateForm(ids, uploadedImages) IN
          lastCall' = [op |-> "validateForm", ids |-> ids,
                       ret |-> r.ret, errors |-> r.errors]
    /\ UNCHANGED <<dom, uploadedImages, priceVars, toastVars, normVars>>

FormInit ==
    /\ dom = [id \in FieldIds |-> << >>]
    /\ uploadedImages = 0
    /\ lastCall = NoCall

FormNext == SetFieldValue \/ AddImage \/ BlurField \/ SubmitForm

----------------------------------------------------------------------------
(* Comparable Normalizer (design document, section 4.1) *)

UpperCase == <<"A", "B", "C", "D", "E", "F", "G", "H", "I", "J", "K", "L", "M",
               "N", "O", "P", "Q", "R", "S", "T", "U", "V", "W", "X", "Y", "Z">>
LowerCase == <<"a", "b", "c", "d", "e", "f", "g", "h", "i", "j", "k", "l", "m",
               "n", "o", "p", "q", "r", "s", "t", "u", "v", "w", "x", "y", "z">>

LowerOf ==
    [c \in {UpperCase[i] : i \in 1 .. 26} |->
        LowerCase[CHOOSE i \in 1 .. 26 : UpperCase[i] = c]]

ToLowerChar(c) == IF c \in DOMAIN LowerOf THEN LowerOf[c] ELSE c

ToLower(s) == [i \in 1 .. Len(s) |-> ToLowerChar(s[i])]

\* sub occurs in s
Contains(s, sub) ==
    \E k \in 0 .. (Len(s) - Len(sub)) : SubSeq(s, k + 1, k + Len(sub)) = sub

\* the length of the longest prefix of s without white space
RECURSIVE WordRun(_)
WordRun(s) ==
    IF s # << >> /\ Head(s) \notin WhiteSpace THEN 1 + WordRun(Tail(s)) ELSE 0

\* the words of s (maximal runs without white space), as a set
RECURSIVE Tokens(_)
Tokens(s) ==
    LET t == TrimStart(s)
        n == WordRun(t)
    IN  IF t = << >> THEN {} ELSE {SubSeq(t, 1, n)} \cup Tokens(Drop(t, n))

CurrencySymbols == {"€", "$", "£"}
NoPrice == <<"null">>          \* the price field is missing
Unparseable == [ok |-> FALSE]

RECURSIVE StripStart(_)
StripStart(s) ==
    IF s # << >> /\ Head(s) \in (WhiteSpace \cup CurrencySymbols)
    THEN StripStart(Tail(s)) ELSE s

RECURSIVE StripEnd(_)
StripEnd(s) ==
    IF s # << >> /\ s[Len(s)] \in (WhiteSpace \cup CurrencySymbols)
    THEN StripEnd(SubSeq(s, 1, Len(s) - 1)) ELSE s

\* "1.000" -> "1000": the digits of an integer part written with "." as
\* thousands separator (groups of three digits after a first group of one
\* to three), or of a plain run of digits; << >> when s is neither
RECURSIVE ThousandsGroups(_)
ThousandsGroups(s) ==
    IF s = << >> THEN << >>
    ELSE IF Len(s) >= 4 /\ Head(s) = "." /\ DigitRun(Tail(s)) >= 3
              /\ (Len(s) = 4 \/ s[5] = ".")
              /\ (Len(s) = 4 \/ ThousandsGroups(Drop(s, 4)) # << >>)
         THEN SubSeq(s, 2, 4) \o ThousandsGroups(Drop(s, 4))
    ELSE << >>

IntegerDigits(s) ==
    LET n == DigitRun(s) IN
    IF n = 0 THEN << >>
    ELSE IF n = Len(s) THEN s
    ELSE IF n <= 3 /\ ThousandsGroups(Drop(s, n)) # << >>
         THEN SubSeq(s, 1, n) \o ThousandsGroups(Drop(s, n))
    ELSE << >>

\* Step 1, price parsing: the amount in cents of a raw price field. Currency
\* symbols and white space around the amount are ignored; the amount is an
\* optional "-", an integer part (with optional "." thousands separators)
\* and an optional "," followed by one or two decimals. Anything else, and
\* a missing field, is unparseable.
parsePrice(raw) ==
    LET t == StripEnd(StripStart(raw))
        neg == t # << >> /\ Head(t) = "-"
        u == IF neg THEN Tail(t) ELSE t
        commas == {k \in 1 .. Len(u) : u[k] = ","}
        k == IF commas = {} THEN Len(u) + 1 ELSE CHOOSE c \in commas : TRUE
        intDigits == IntegerDigits(SubSeq(u, 1, k - 1))
        decimals == Drop(u, k)
        decimalsOk ==
            IF commas = {} THEN TRUE
            ELSE /\ Cardinality(commas) = 1
                 /\ Len(decimals) \in {1, 2}
                 /\ DigitRun(decimals) = Len(decimals)
        cents ==
            100 * DigitsToNat(intDigits)
              + (IF Len(decimals) = 1 THEN 10 * DigitsToNat(decimals)
                 ELSE DigitsToNat(decimals))
    IN  IF raw = NoPrice \/ intDigits = << >> \/ ~decimalsOk THEN Unparseable
        ELSE [ok |-> TRUE, cents |-> IF neg THEN 0 - cents ELSE cents]

\* a listing takes part in the statistics with an imputed price of 0
HasAnyPrice(listing) == TRUE

\* a listing is kept by step 1 iff its price resolves to a positive amount
HasPositivePrice(listing) ==
    LET p == parsePrice(listing.price) IN p.ok /\ p.cents > 0

\* Step 2, relevance: the title shares a keyword with the brand and type
\* of the query (case-insensitive substring match)
QueryTokens(query) == Tokens(ToLower(query.brand)) \cup Tokens(ToLower(query.type))
IsRelevant(listing, query) ==
    LET title == ToLower(listing.title) IN
    \E token \in QueryTokens(query) : Contains(title, token)

\* Step 3, condition mapping: the rank of a condition label in
\* new > like-new > good > fair > poor, or unknown
UnknownRank == -1
ConditionRank(text) ==
    CASE text = "new" -> 4
      [] text = "like-new" -> 3
      [] text = "good" -> 2
      [] text = "fair" -> 1
      [] text = "poor" -> 0
      [] OTHER -> UnknownRank

\* Step 4, size: the canonical size token of a free text, or unknown
SizeToken(text) ==
    CASE text \in {"M", "m", "Medium"} -> "M"
      [] text \in {"L", "l", "Large"} -> "L"
      [] OTHER -> "unknown"
SizeMatch(listing, query) ==
    /\ SizeToken(listing.size) # "unknown"
    /\ SizeToken(listing.size) = SizeToken(query.size)

\* s with x inserted before the first element greater than x (s sorted)
RECURSIVE Insert(_, _)
Insert(s, x) ==
    IF s = << >> THEN <<x>>
    ELSE IF x <= Head(s) THEN <<x>> \o s
    ELSE <<Head(s)>> \o Insert(Tail(s), x)

RECURSIVE Sort(_)
Sort(s) == IF s = << >> THEN << >> ELSE Insert(Sort(Tail(s)), Head(s))

\* The design leaves the quartile convention to the implementer. The two
\* usual ones: "linear" interpolates at position 1 + (n - 1) * q / 4 of the
\* sorted prices, "exclusive" at position (n + 1) * q / 4.
QuartileMethods == {"linear", "exclusive"}

\* 4 times the quartile q (1 or 3) of the sorted sequence s of at least 4
\* prices, by linear interpolation between the two nearest ranks
QuartileTimes4(s, q, method) ==
    LET h == IF method = "linear" THEN 4 + (Len(s) - 1) * q
             ELSE (Len(s) + 1) * q
        lo == h \div 4
        frac == h % 4
    IN  IF frac = 0 THEN 4 * s[lo]
        ELSE 4 * s[lo] + frac * (s[lo + 1] - s[lo])

\* 8 times the bounds Q1 - 1.5 * IQR and Q3 + 1.5 * IQR of the prices
FencesTimes8(prices, method) ==
    LET s == Sort(prices)
        q1 == QuartileTimes4(s, 1, method)
        q3 == QuartileTimes4(s, 3, method)
    IN  [low |-> 2 * q1 - 3 * (q3 - q1), high |-> 2 * q3 + 3 * (q3 - q1)]

\* fewer prices than this: outlier rejection is skipped
MinForOutlierRejection == 4

\* the elements of s, in order, whose index (from i on) is in the set keep
RECURSIVE SelectAt(_, _, _)
SelectAt(s, i, keep) ==
    IF i > Len(s) THEN << >>
    ELSE (IF i \in keep THEN <<s[i]>> ELSE << >>) \o SelectAt(s, i + 1, keep)

\* Step 5, outlier rejection on the entries that survived steps 1 to 3
RejectOutliersFrom(entries, method, atLeast) ==
    LET prices == [i \in 1 .. Len(entries) |-> entries[i].price]
        fences == FencesTimes8(prices, method)
        inside == {i \in 1 .. Len(entries) :
                      8 * prices[i] >= fences.low /\ 8 * prices[i] <= fences.high}
    IN  IF Len(entries) < atLeast THEN entries
        ELSE SelectAt(entries, 1, inside)

RejectOutliersLate(entries, method) ==
    RejectOutliersFrom(entries, method, MinForOutlierRejection + 1)
RejectOutliers(entries, method) ==
    RejectOutliersFrom(entries, method, MinForOutlierRejection)

\* steps 1 to 4: the entries of the listings that pass the price and the
\* relevance filter, in the order of the listings
Entries(listings, query) ==
    LET keep == {i \in 1 .. Len(listings) :
                    HasPositivePrice(listings[i]) /\ IsRelevant(listings[i], query)}
        kept == SelectAt(listings, 1, keep)
    IN  [i \in 1 .. Len(kept) |->
            LET p == parsePrice(kept[i].price) IN
            [price |-> IF p.ok THEN p.cents ELSE 0,
             condition_rank |-> ConditionRank(kept[i].condition),
             size_match |-> SizeMatch(kept[i], query)]]

\* the query names neither a brand nor a type
LacksBrandAndType(query) == query.brand = << >> /\ query.type = << >>
LacksBrandOrType(query) == query.brand = << >> \/ query.type = << >>
IsInvalidQuery(query) == LacksBrandAndType(query)

\* normalize(rawListings, query), with the quartile convention configured
normalize(listings, query, method) ==
    IF IsInvalidQuery(query)
    THEN [status |-> "InvalidQuery", query |-> query]
    ELSE [status |-> "ok", query |-> query, method |-> method,
          sample |-> RejectOutliers(Entries(listings, query), method)]

Str_Nike == <<"N", "i", "k", "e">>
Str_Felpa == <<"F", "e", "l", "p", "a">>

Queries ==
    [brand : {<< >>, Str_Nike}, type : {<< >>, Str_Felpa}, size : {"M"}]

Raw_14 == <<"1", "4", "€">>
Raw_12_50 == <<"1", "2", ",", "5", "0", "€">>
Raw_13 == <<"1", "3", " ", "€">>
Raw_15 == <<"1", "5", "€">>
Raw_10000 == <<"€", " ", "1", "0", ".", "0", "0", "0">>
Raw_bad == <<"b", "a", "d">>
Raw_minus5 == <<"-", "5", "€">>
Raw_0 == <<"0", ",", "0", "0", "€">>

Title_FelpaNike == <<"F", "e", "l", "p", "a", " ", "N", "i", "k", "e">>
Title_NIKEtop == <<"N", "I", "K", "E", " ", "t", "o", "p">>
Title_nikeFELPA == <<"n", "i", "k", "e", " ", "F", "E", "L", "P", "A">>
Title_Adidas == <<"A", "d", "i", "d", "a", "s">>

\* raw records a scraper may return: well-formed ones, and ones whose price
\* is unparseable, negative, zero or missing, or whose title is unrelated
ScrapedListings ==
    { [price |-> Raw_14, title |-> Title_FelpaNike, condition |-> "good", size |-> "M"],
      [price |-> Raw_12_50, title |-> Title_NIKEtop, condition |-> "Ottimo", size |-> "Large"],
      [price |-> Raw_10000, title |-> Title_nikeFELPA, condition |-> "poor", size |-> "M"],
      [price |-> Raw_bad, title |-> Title_FelpaNike, condition |-> "good", size |-> "M"],
      [price |-> Raw_minus5, title |-> Title_FelpaNike, condition |-> "fair", size |-> "?"],
      [price |-> Raw_0, title |-> Title_FelpaNike, condition |-> "like-new", size |-> "l"],
      [price |-> NoPrice, title |-> Title_FelpaNike, condition |-> "new", size |-> "M"],
      [price |-> Raw_15, title |-> Title_Adidas, condition |-> "good", size |-> "M"] }

\* the records of a larger result: prices around 13 and a price of 10,000
ComparableListings ==
    { [price |-> Raw_14, title |-> Title_FelpaNike, condition |-> "good", size |-> "M"],
      [price |-> Raw_13, title |-> Title_NIKEtop, condition |-> "fair", size |-> "Large"],
      [price |-> Raw_10000, title |-> Title_nikeFELPA, condition |-> "poor", size |-> "M"] }

NotRun == [status |-> "none"]

\* the scraper returns one more record, of those in kinds, up to max records
Scrape(kinds, max) ==
    /\ normResult = NotRun
    /\ Len(rawListings) < max
    /\ \E listing \in kinds : rawListings' = Append(rawListings, listing)
    /\ UNCHANGED <<normResult, priceVars, toastVars, formVars>>

ScrapeListing == Scrape(ScrapedListings, MaxListings)
ScrapeComparable == Scrape(ComparableListings, MaxComparables)

\* the orchestrator calls normalize on the records of the request
Normalize ==
    /\ normResult = NotRun
    /\ \E query \in Queries, method \in QuartileMethods :
          normResult' = normalize(rawListings, query, method)
    /\ UNCHANGED <<rawListings, priceVars, toastVars, formVars>>

NormInit ==
    /\ rawListings = << >>
    /\ normResult = NotRun

NormNext == ScrapeListing \/ Normalize
OutlierNext == ScrapeComparable \/ Normalize

----------------------------------------------------------------------------
(* Claims about the price estimate, checked under SpecPrice *)

CallIndexes == 1 .. Len(priceCalls)

\* C1: every price estimate has a strictly positive recommended price and a
\* price range with low <= recommended price <= high.
C1_PositiveWithinRange ==
    \A i \in CallIndexes :
        LET est == priceCalls[i].ret IN
        /\ recommended_price(est) > 0
        /\ price_range(est) # Undefined
        /\ price_range(est).low <= recommended_price(est)
        /\ recommended_price(est) <= price_range(est).high

\* C2: two evaluations with the same listings, query and condition yield the
\* same output.
C2_Deterministic ==
    \A i, j \in CallIndexes :
        priceCalls[i].args = priceCalls[j].args
            => priceCalls[i].ret = priceCalls[j].ret

\* C3: for a fixed sample, the price recommended for condition "new" is
\* strictly greater than the price recommended for condition "poor".
C3_NewAbovePoor ==
    \A i, j \in CallIndexes :
        /\ priceCalls[i].args.sample = priceCalls[j].args.sample
        /\ priceCalls[i].args.category = priceCalls[j].args.category
        /\ priceCalls[i].args.defaultPrice = priceCalls[j].args.defaultPrice
        /\ priceCalls[i].args.condition = "new"
        /\ priceCalls[j].args.condition = "poor"
        => recommended_price(priceCalls[i].ret) > recommended_price(priceCalls[j].ret)

\* C4: the estimate of an empty sample is the caller-supplied default, with
\* confidence low and the range (default * 0.8, default * 1.2).
C4_EmptySampleFallback ==
    \A i \in CallIndexes :
        LET est == priceCalls[i].ret
            d == priceCalls[i].args.defaultPrice
        IN  priceCalls[i].args.sample = << >> =>
                /\ recommended_price(est) = d
                /\ confidence(est) = "low"
                /\ price_range(est) # Undefined
                /\ price_range(est) = [low |-> (8 * d) \div 10, high |-> (12 * d) \div 10]

----------------------------------------------------------------------------
(* Claims about the Comparable Normalizer, checked under SpecNormalize *)

RawIndexes == 1 .. Len(rawListings)

\* C5: every element of the normalized sample has a strictly positive price,
\* and it is the price of a raw listing whose price parses to a positive
\* amount: listings with a missing, unparseable or non-positive price are
\* dropped, never kept with a zero or an imputed price.
C5_SamplePricesPositive ==
    normResult.status = "ok" =>
        LET sample == normResult.sample
            priced == {i \in RawIndexes : HasPositivePrice(rawListings[i])}
            wellFormed == {i \in RawIndexes :
                              rawListings[i].price \in
                                  {Raw_14, Raw_12_50, Raw_13, Raw_15, Raw_10000}}
            pricedCents == {parsePrice(rawListings[i].price).cents : i \in priced}
        IN  /\ \A k \in 1 .. Len(sample) :
                  /\ sample[k].price > 0
                  /\ sample[k].price \in {1400, 1250, 1300, 1500, 1000000}
                  /\ sample[k].price \in pricedCents
            /\ Len(sample) <= Cardinality(priced)
            /\ Len(sample) <= Cardinality(wellFormed)

\* C5 witness: a request with a missing and a negative price beside a
\* well-formed one was normalized, and one element remains
C5_Witness ==
    /\ normResult.status = "ok"
    /\ \E i \in RawIndexes : rawListings[i].price = NoPrice
    /\ \E i \in RawIndexes : rawListings[i].price = Raw_minus5
    /\ \E i \in RawIndexes : rawListings[i].price = Raw_14
    /\ Len(normResult.sample) = 1
    /\ normResult.sample[1].price = 1400

\* the entries that survive price parsing and the relevance filter
Survivors == Entries(rawListings, normResult.query)

\* the survivors inside the fences of the configured quartile convention
InsideFences(survivors) ==
    LET n == Len(survivors)
        prices == [i \in 1 .. n |-> survivors[i].price]
        fences == FencesTimes8(prices, normResult.method)
    IN  {i \in 1 .. n : /\ 8 * prices[i] >= fences.low
                        /\ 8 * prices[i] <= fences.high}

\* the sample holds no price of 10,000
OutlierExcluded ==
    \A k \in 1 .. Len(normResult.sample) : normResult.sample[k].price # 1000000

\* the survivors are one price of 10,000 and at least atLeast prices of
\* 13 to 14
OneOutlierAmong(survivors, atLeast) ==
    /\ Len(survivors) >= atLeast + 1
    /\ Cardinality({i \in 1 .. Len(survivors) : survivors[i].price = 1000000}) = 1

C7_InvalidQueryOnly ==
    normResult # NotRun =>
        /\ normResult.status = "InvalidQuery"
              <=> (normResult.query.brand = << >> /\ normResult.query.type = << >>)
        /\ normResult.status # "InvalidQuery" =>
              /\ normResult.status = "ok"
              /\ Len(normResult.sample) <= Len(rawListings)

\* C7 witness: a query with a type and no brand, on listings with a missing
\* and an unparseable price, returned a sample
C7_Witness ==
    /\ normResult.status = "ok"
    /\ normResult.query.brand = << >>
    /\ normResult.query.type # << >>
    /\ \E i \in RawIndexes : rawListings[i].price = NoPrice
    /\ \E i \in RawIndexes : rawListings[i].price = Raw_bad
    /\ Len(normResult.sample) = 1

----------------------------------------------------------------------------
(* Claims about the form validation, checked under SpecForm *)

\* the entries of the id array ids that resolve to a field failing validateField
FailingEntries(ids) ==
    {i \in 1 .. Len(ids) :
        /\ getElementById(ids[i]) # NoElement
        /\ ~validateField(getElementById(ids[i])).ret}

\* the onError calls of the last call that name the field f
ErrorsNaming(f) ==
    {k \in 1 .. Len(lastCall.errors) : lastCall.errors[k].field = f}

\* C8: validateForm returns true iff there is an image and every required id
\* that resolves to an element passes validateField; it reports every
\* failure: onError is called once for missing images plus once for each
\* listed id whose field fails (in the order listed), and the result is
\* false exactly when onError was called.
C8_FormReportsEveryFailure ==
    lastCall.op = "validateForm" =>
        LET ids == lastCall.ids
            failing == FailingEntries(ids)
            imageCalls == IF uploadedImages = 0 THEN 1 ELSE 0
        IN  /\ lastCall.ret <=> (uploadedImages > 0 /\ failing = {})
            /\ Cardinality(ErrorsNaming("null")) = imageCalls
            /\ \A id \in RequiredIds :
                  Cardinality(ErrorsNaming(id))
                      = Cardinality({i \in failing : ids[i] = id})
            /\ Len(lastCall.errors) = imageCalls + Cardinality(failing)
            /\ ~lastCall.ret <=> Len(lastCall.errors) >= 1

\* C8 witness: a form without images and with two different failing required
\* fields was validated: three reports and a false result
C8_Witness ==
    /\ lastCall.op = "validateForm"
    /\ uploadedImages = 0
    /\ Len(lastCall.ids) = 2
    /\ lastCall.ids[1] # lastCall.ids[2]
    /\ FailingEntries(lastCall.ids) = {1, 2}
    /\ Len(lastCall.errors) = 3
    /\ ~lastCall.ret

\* C9: validateField accepts a field of type 'number' only when its trimmed
\* value is non-empty and parses to a number > 0; an empty, non-numeric,
\* zero or negative value is rejected with exactly one onError call.
C9_NumberFieldOnlyPositive ==
    (lastCall.op = "validateField" /\ FieldType(lastCall.id) = "number") =>
        LET value == trim(dom[lastCall.id])
            n == parseFloat(value)
            positive == value # << >> /\ n.kind # "NaN" /\ GreaterThanZero(n)
        IN  /\ lastCall.ret => (positive /\ lastCall.errors = << >>)
            /\ ~positive => (~lastCall.ret /\ Len(lastCall.errors) = 1)

----------------------------------------------------------------------------
(* Claims about the toast, checked under SpecToast *)

\* C10: the toast stays visible for the full 4000 ms that follow the most
\* recent showToast call on it.
C10_VisibleFullDelay ==
    (lastShown >= 0 /\ now < lastShown + ToastDelayMs) => ~toastHidden

----------------------------------------------------------------------------
Init == PriceInit /\ ToastInit /\ FormInit /\ NormInit

SpecPrice == Init /\ [][CallGenerateAIPrice]_vars

ToastNext == ShowToast \/ FireTimer \/ Tick
SpecToast == Init /\ [][ToastNext]_vars

SpecForm == Init /\ [][FormNext]_vars

SpecNormalize == Init /\ [][NormNext]_vars
SpecOutliers == Init /\ [][OutlierNext]_vars

Next == CallGenerateAIPrice \/ ToastNext \/ FormNext \/ NormNext \/ OutlierNext
Spec == Init /\ [][Next]_vars
====
